---- MODULE Spec2Model ----
(***************************************************************************)
(* Dependency Explanation Assistant: the requirement parser, the graph     *)
(* builder, the compatibility rule engine and the explanation engine, as   *)
(* driven by one analysis run of app.py.                                   *)
(*                                                                         *)
(* Python str values are TLA+ strings; s[i:j] is SubSeq.  Python None is   *)
(* the empty tuple and a present optional value v is <<v>>.                *)
(***************************************************************************)
EXTENDS Integers, Sequences, FiniteSets, TLC

VARIABLES
    pc,            \* position of the run of app.main: "start", "explain", "waiting", "done"
    use_llm,       \* the sidebar checkbox, handed to ExplanationEngine(use_local_llm=...)
    input_text,    \* the submitted requirements text
    dependencies,  \* parse_requirements_text(input_text)
    graph,         \* build_dependency_graph(dependencies)
    is_compatible, \* first component of check_compatibility(graph)
    issues,        \* second component of check_compatibility(graph)
    idx,           \* 1-based index of the issue the loop of app.py:118 is at
    prompt,        \* the prompt of the generate_explanation call in progress
    posts,         \* requests.post calls made by the generate_explanation call in progress
    fallbacks,     \* _fallback_explanation calls made by that call
    raised,        \* TRUE when that call raised to its caller
    response,      \* what requests.post came back with in that call, as <<outcome>>
    explanation    \* the dict returned by the last completed call, as <<dict>>; <<>> before

vars == <<pc, use_llm, input_text, dependencies, graph, is_compatible, issues,
          idx, prompt, posts, fallbacks, raised, response, explanation>>

(***************************************************************************)
(* Bounds of the model.                                                    *)
(***************************************************************************)
MaxLines == 3

(***************************************************************************)
(* Python str primitives.                                                  *)
(***************************************************************************)
None == <<>>

Some(v) == <<v>>

Char(s, i) == SubSeq(s, i, i)

SpaceSet == {" ", "\t", "\r", "\n"}

IsSpace(c) == c \in SpaceSet

\* str.strip()
Strip(s) ==
    IF \A i \in 1..Len(s) : IsSpace(Char(s, i)) THEN ""
    ELSE SubSeq(s,
                CHOOSE i \in 1..Len(s) :
                    ~IsSpace(Char(s, i)) /\ \A j \in 1..(i - 1) : IsSpace(Char(s, j)),
                CHOOSE i \in 1..Len(s) :
                    ~IsSpace(Char(s, i)) /\ \A j \in (i + 1)..Len(s) : IsSpace(Char(s, j)))

\* whether sub occurs in s at index i
MatchAt(s, sub, i) == SubSeq(s, i, i + Len(sub) - 1) = sub

\* str.find(sub) + 1: the 1-based index of the first occurrence, 0 when absent
Find(s, sub) ==
    IF \E i \in 1..(Len(s) - Len(sub) + 1) : MatchAt(s, sub, i)
    THEN CHOOSE i \in 1..(Len(s) - Len(sub) + 1) :
             MatchAt(s, sub, i) /\ \A j \in 1..(i - 1) : ~MatchAt(s, sub, j)
    ELSE 0

\* sub in s
Contains(s, sub) == \E i \in 1..(Len(s) - Len(sub) + 1) : MatchAt(s, sub, i)

\* s.startswith(sub)
StartsWith(s, sub) == Len(s) >= Len(sub) /\ SubSeq(s, 1, Len(sub)) = sub

\* s.split(sep)[0]
SplitFirst(s, sep) ==
    LET at == Find(s, sep)
    IN  IF at = 0 THEN s ELSE SubSeq(s, 1, at - 1)

\* s.split(sep)
RECURSIVE Split(_, _)
Split(s, sep) ==
    LET at == Find(s, sep)
    IN  IF at = 0 THEN <<s>>
        ELSE <<SubSeq(s, 1, at - 1)>> \o Split(SubSeq(s, at + Len(sep), Len(s)), sep)

UpperChars == "ABCDEFGHIJKLMNOPQRSTUVWXYZ"

LowerChars == "abcdefghijklmnopqrstuvwxyz"

Digits == "0123456789"

\* the characters of s, as a set
CharSet(s) == {Char(s, i) : i \in 1..Len(s)}

UpperSet == CharSet(UpperChars)

ToLower == [c \in UpperSet |-> Char(LowerChars, Find(UpperChars, c))]

LowerChar(c) == IF c \in UpperSet THEN ToLower[c] ELSE c

\* str.lower(), by halves so that long texts stay shallow
RECURSIVE Lower(_)
Lower(s) ==
    IF Len(s) = 0 THEN ""
    ELSE IF Len(s) = 1 THEN LowerChar(s)
    ELSE Lower(SubSeq(s, 1, Len(s) \div 2)) \o Lower(SubSeq(s, Len(s) \div 2 + 1, Len(s)))

\* sep.join(parts)
RECURSIVE Join(_, _)
Join(sep, parts) ==
    IF Len(parts) = 0 THEN ""
    ELSE IF Len(parts) = 1 THEN parts[1]
    ELSE parts[1] \o sep \o Join(sep, Tail(parts))

\* code-point order of the characters a specifier is written with
OrdChars == "!.0123456789<=>~"

Ord(c) == Find(OrdChars, c)

\* a < b on Python strings
RECURSIVE StrLess(_, _)
StrLess(a, b) ==
    IF Len(b) = 0 THEN FALSE
    ELSE IF Len(a) = 0 THEN TRUE
    ELSE IF Char(a, 1) = Char(b, 1)
         THEN StrLess(SubSeq(a, 2, Len(a)), SubSeq(b, 2, Len(b)))
         ELSE Ord(Char(a, 1)) < Ord(Char(b, 1))

\* sorted(S) for a set of strings
RECURSIVE Sorted(_)
Sorted(S) ==
    IF S = {} THEN <<>>
    ELSE LET least == CHOOSE a \in S : \A b \in S \ {a} : StrLess(a, b)
         IN  <<least>> \o Sorted(S \ {least})

(***************************************************************************)
(* packaging.requirements.Requirement, for requirement lines written with  *)
(* letters, digits, blanks and . _ - [ ] , = < > ! ~ : a name, optional    *)
(* extras, optional comma-separated version specifiers.  URL requirements  *)
(* (@) and environment markers (;) are outside this alphabet, so marker is *)
(* always empty.                                                           *)
(***************************************************************************)
AlnumChars == LowerChars \o UpperChars \o Digits

NameChars == AlnumChars \o "._-"

AlnumSet == CharSet(AlnumChars)

NameSet == CharSet(NameChars)

IsAlnum(c) == c \in AlnumSet

\* length of the longest prefix of s made of name characters
NameRun(s) ==
    IF \A i \in 1..Len(s) : Char(s, i) \in NameSet THEN Len(s)
    ELSE (CHOOSE i \in 1..Len(s) :
              Char(s, i) \notin NameSet /\ \A j \in 1..(i - 1) : Char(s, j) \in NameSet) - 1

\* length of the name the line starts with (0: none): name characters, alphanumeric at both ends
NameLen(s) ==
    LET run == NameRun(s)
    IN  IF run = 0 \/ ~IsAlnum(Char(s, 1)) THEN 0
        ELSE CHOOSE n \in 1..run :
                 IsAlnum(Char(s, n)) /\ \A m \in (n + 1)..run : ~IsAlnum(Char(s, m))

IsIdentifier(s) == Len(s) > 0 /\ NameLen(s) = Len(s)

VersionSet == CharSet(Digits \o ".")

\* a release number: digit groups separated by single dots
IsVersion(v) ==
    /\ Len(v) > 0
    /\ \A i \in 1..Len(v) : Char(v, i) \in VersionSet
    /\ Char(v, 1) # "." /\ Char(v, Len(v)) # "."
    /\ ~Contains(v, "..")

Operators == {"~=", "==", "!=", "<=", ">=", "<", ">"}

\* the operators under which the clause p is a valid specifier
ClauseOps(p) ==
    {op \in Operators : StartsWith(p, op) /\ IsVersion(Strip(SubSeq(p, Len(op) + 1, Len(p))))}

IsArbitraryEquality(p) ==
    /\ StartsWith(p, "===")
    /\ Len(Strip(SubSeq(p, 4, Len(p)))) > 0
    /\ \A i \in 1..Len(Strip(SubSeq(p, 4, Len(p)))) : ~IsSpace(Char(Strip(SubSeq(p, 4, Len(p))), i))

ValidClause(p) == IsArbitraryEquality(p) \/ ClauseOps(p) # {}

\* str(Specifier(p)): operator and version with the blanks between them dropped
ClauseStr(p) ==
    IF IsArbitraryEquality(p) THEN "===" \o Strip(SubSeq(p, 4, Len(p)))
    ELSE LET op == CHOOSE o \in ClauseOps(p) : TRUE
         IN  op \o Strip(SubSeq(p, Len(op) + 1, Len(p)))

SeqRange(q) == {q[i] : i \in 1..Len(q)}

\* Requirement(line): [ok |-> FALSE] when InvalidRequirement is raised; otherwise
\* name as written, str(specifier) (clauses sorted and joined by ","), extras, marker
Requirement(line) ==
    LET s         == Strip(line)
        n         == NameLen(s)
        afterName == Strip(SubSeq(s, n + 1, Len(s)))
        hasExtras == StartsWith(afterName, "[")
        close     == Find(afterName, "]")
        inner     == Strip(SubSeq(afterName, 2, close - 1))
        extras    == IF ~hasExtras \/ inner = "" THEN {}
                     ELSE {Strip(e) : e \in SeqRange(Split(inner, ","))}
        extrasOk  == ~hasExtras \/ (close # 0 /\ \A e \in extras : IsIdentifier(e))
        specText  == IF hasExtras THEN Strip(SubSeq(afterName, close + 1, Len(afterName)))
                     ELSE afterName
        clauses   == IF specText = "" THEN {}
                     ELSE {Strip(c) : c \in SeqRange(Split(specText, ","))}
        specOk    == \A c \in clauses : ValidClause(c)
    IN  IF n = 0 \/ ~extrasOk \/ ~specOk
        THEN [ok |-> FALSE]
        ELSE [ok        |-> TRUE,
              name      |-> SubSeq(s, 1, n),
              specifier |-> Join(",", Sorted({ClauseStr(c) : c \in clauses})),
              extras    |-> extras,
              marker    |-> ""]

\* str(e) of the InvalidRequirement raised for the line: it quotes the line
ErrorText(line) == "Invalid requirement: " \o line

(***************************************************************************)
(* DependencyParser.parse_requirements_text                                *)
(***************************************************************************)
\* the lines the loop iterates over
TextLines(text) == Split(Strip(text), "\n")

\* the blank / comment-line test on the stripped line
IsSkippedLine(line) == line = "" \/ StartsWith(line, "#")

\* the stripped line after "Remove comments"
CleanLine(line) ==
    LET at == Find(line, "#")
    IN  IF at # 0 THEN Strip(SubSeq(line, 1, at - 1)) ELSE line

\* the package of the record built for a malformed line
RecoveredName(line) ==
    Strip(SplitFirst(SplitFirst(SplitFirst(SplitFirst(line, "=="), ">="), "<="), "["))

ParseErrorRecord(line) ==
    [package   |-> RecoveredName(line),
     specifier |-> "",
     extras    |-> {},
     marker    |-> "",
     original  |-> line,
     conflict  |-> Some("Parse error: " \o ErrorText(line))]

DepRecord(package_name, req, line, conflict) ==
    [package   |-> package_name,
     specifier |-> req.specifier,
     extras    |-> req.extras,
     marker    |-> req.marker,
     original  |-> line,
     conflict  |-> conflict]

DuplicateConflict(existing, line) ==
    Some("Duplicate: " \o existing.original \o " vs " \o line)

\* faulty variant of SpecifierDiffers: every later line for a registered name gets a record
AlwaysDiffers(existing, req) == TRUE

\* whether a later line for a registered name gets a record
SpecifierDiffers(existing, req) == existing.specifier # req.specifier

\* seen_packages after a first-seen record was appended
Register(seen, dep) ==
    [p \in DOMAIN seen \cup {dep.package} |-> IF p = dep.package THEN dep ELSE seen[p]]

\* faulty variant of KeepRegistered: the later line replaces the registered record
ReplaceRegistered(seen, dep) == Register(seen, dep)

\* seen_packages after a line for an already registered name
KeepRegistered(seen, dep) == seen

\* one iteration of the loop: st = [deps, seen] before, the result after
ParseStep(st, raw) ==
    IF IsSkippedLine(Strip(raw)) THEN st
    ELSE LET line == CleanLine(Strip(raw))
             req  == Requirement(line)
         IN  IF ~req.ok
             THEN [deps |-> Append(st.deps, ParseErrorRecord(line)), seen |-> st.seen]
             ELSE LET package_name == Lower(req.name)
                  IN  IF package_name \in DOMAIN st.seen
                      THEN LET existing == st.seen[package_name]
                               dep      == DepRecord(package_name, req, line,
                                                     DuplicateConflict(existing, line))
                           IN  IF SpecifierDiffers(existing, req)
                               THEN [deps |-> Append(st.deps, dep),
                                     seen |-> KeepRegistered(st.seen, dep)]
                               ELSE st
                      ELSE LET dep == DepRecord(package_name, req, line, None)
                           IN  [deps |-> Append(st.deps, dep), seen |-> Register(st.seen, dep)]

RECURSIVE ParseLoop(_, _)
ParseLoop(st, lines) ==
    IF Len(lines) = 0 THEN st ELSE ParseLoop(ParseStep(st, Head(lines)), Tail(lines))

ParseState(text) == ParseLoop([deps |-> <<>>, seen |-> <<>>], TextLines(text))

parse_requirements_text(text) == ParseState(text).deps

(***************************************************************************)
(* ConflictDetector.build_dependency_graph                                 *)
(***************************************************************************)
NodeOf(dep) ==
    [specifier |-> dep.specifier,
     extras    |-> dep.extras,
     marker    |-> dep.marker,
     conflict  |-> dep.conflict]

\* faulty variant of SetNode: records that carry a conflict get no node
SetNodeUnlessConflict(nodes, dep) ==
    IF dep.conflict # None THEN nodes
    ELSE [p \in DOMAIN nodes \cup {dep.package} |->
             IF p = dep.package THEN NodeOf(dep) ELSE nodes[p]]

\* faulty variant of SetNode: the first record of a name keeps the node (setdefault)
SetNodeKeepFirst(nodes, dep) ==
    [p \in DOMAIN nodes \cup {dep.package} |->
        IF p \in DOMAIN nodes THEN nodes[p] ELSE NodeOf(dep)]

\* faulty variant of SetNode: a later record of a name leaves the node's specifier alone
SetNodeKeepSpecifier(nodes, dep) ==
    [p \in DOMAIN nodes \cup {dep.package} |->
        IF p # dep.package THEN nodes[p]
        ELSE IF p \in DOMAIN nodes
             THEN [NodeOf(dep) EXCEPT !.specifier = nodes[p].specifier]
             ELSE NodeOf(dep)]

\* graph['nodes'][package] = {...}
SetNode(nodes, dep) ==
    [p \in DOMAIN nodes \cup {dep.package} |->
        IF p = dep.package THEN NodeOf(dep) ELSE nodes[p]]

\* truth value of dep.get('conflict')
HasConflict(dep) == dep.conflict # None /\ dep.conflict[1] # ""

\* graph['conflicts'] after the record
AddConflict(conflicts, dep) ==
    IF HasConflict(dep)
    THEN Append(conflicts, [package |-> dep.package, reason |-> dep.conflict[1]])
    ELSE conflicts

GraphStep(g, dep) ==
    [nodes     |-> SetNode(g.nodes, dep),
     edges     |-> g.edges,
     conflicts |-> AddConflict(g.conflicts, dep)]

RECURSIVE GraphLoop(_, _)
GraphLoop(g, deps) ==
    IF Len(deps) = 0 THEN g ELSE GraphLoop(GraphStep(g, Head(deps)), Tail(deps))

EmptyGraph == [nodes |-> <<>>, edges |-> <<>>, conflicts |-> <<>>]

build_dependency_graph(deps) == GraphLoop(EmptyGraph, deps)

(***************************************************************************)
(* ConflictDetector.check_compatibility                                    *)
(***************************************************************************)
DuplicateIssue(conflict) ==
    [type     |-> "duplicate",
     package  |-> conflict.package,
     message  |-> "Conflict in " \o conflict.package \o ": " \o conflict.reason,
     severity |-> "high"]

RECURSIVE DuplicateIssues(_)
DuplicateIssues(conflicts) ==
    IF Len(conflicts) = 0 THEN <<>>
    ELSE <<DuplicateIssue(Head(conflicts))>> \o DuplicateIssues(Tail(conflicts))

PairIssue(a, b, message, nodes) ==
    [type     |-> "version_incompatibility",
     packages |-> <<a, b>>,
     message  |-> message,
     severity |-> "high",
     details  |-> <<<<a, nodes[a].specifier>>, <<b, nodes[b].specifier>>>>]

\* faulty variant of LightningTorchFires: torch is tested for an upper bound, not for a 1.x pin
LightningTorchFiresOnBound(nodes) ==
    /\ "pytorch-lightning" \in DOMAIN nodes /\ "torch" \in DOMAIN nodes
    /\ \/ Contains(nodes["pytorch-lightning"].specifier, "==2.")
       \/ Contains(nodes["pytorch-lightning"].specifier, ">=2.")
    /\ Contains(nodes["torch"].specifier, "<2.")

LightningTorchFires(nodes) ==
    /\ "pytorch-lightning" \in DOMAIN nodes /\ "torch" \in DOMAIN nodes
    /\ \/ Contains(nodes["pytorch-lightning"].specifier, "==2.")
       \/ Contains(nodes["pytorch-lightning"].specifier, ">=2.")
    /\ \/ Contains(nodes["torch"].specifier, "==1.")
       \/ (Contains(nodes["torch"].specifier, "<2.") /\ Contains(nodes["torch"].specifier, "==1."))

FastapiPydanticFires(nodes) ==
    /\ "fastapi" \in DOMAIN nodes /\ "pydantic" \in DOMAIN nodes
    /\ \/ Contains(nodes["fastapi"].specifier, "==0.78")
       \/ Contains(nodes["fastapi"].specifier, "==0.7")
    /\ \/ Contains(nodes["pydantic"].specifier, "==2.")
       \/ Contains(nodes["pydantic"].specifier, ">=2.")

TensorflowKerasFires(nodes) ==
    /\ "tensorflow" \in DOMAIN nodes /\ "keras" \in DOMAIN nodes
    /\ Contains(nodes["tensorflow"].specifier, "==1.")
    /\ \/ Contains(nodes["keras"].specifier, "==3.")
       \/ Contains(nodes["keras"].specifier, ">=3.")

LightningTorchIssues(nodes) ==
    IF LightningTorchFires(nodes)
    THEN <<PairIssue("pytorch-lightning", "torch",
                     "pytorch-lightning>=2.0 requires torch>=2.0, but torch<2.0 is specified",
                     nodes)>>
    ELSE <<>>

FastapiPydanticIssues(nodes) ==
    IF FastapiPydanticFires(nodes)
    THEN <<PairIssue("fastapi", "pydantic",
                     "fastapi==0.78.x requires pydantic v1, but pydantic v2 is specified",
                     nodes)>>
    ELSE <<>>

TensorflowKerasIssues(nodes) ==
    IF TensorflowKerasFires(nodes)
    THEN <<PairIssue("tensorflow", "keras",
                     "keras>=3.0 requires TensorFlow 2.x, but TensorFlow 1.x is specified",
                     nodes)>>
    ELSE <<>>

\* faulty variant of CompatibilityIssues: the pairwise rules run before the duplicates loop
CompatibilityIssuesRulesFirst(g) ==
    LightningTorchIssues(g.nodes)
        \o FastapiPydanticIssues(g.nodes)
        \o TensorflowKerasIssues(g.nodes)
        \o DuplicateIssues(g.conflicts)

\* the issues list at the return statement
CompatibilityIssues(g) ==
    DuplicateIssues(g.conflicts)
        \o LightningTorchIssues(g.nodes)
        \o FastapiPydanticIssues(g.nodes)
        \o TensorflowKerasIssues(g.nodes)

\* len(issues) == 0
AllClear(found) == Len(found) = 0

check_compatibility(g) ==
    LET found == CompatibilityIssues(g)
    IN  <<AllClear(found), found>>

(***************************************************************************)
(* ExplanationEngine                                                       *)
(***************************************************************************)
\* conflict.get('packages', [conflict.get('package', 'unknown')])
IssuePackages(conflict) ==
    IF "packages" \in DOMAIN conflict THEN conflict.packages
    ELSE IF "package" \in DOMAIN conflict THEN <<conflict.package>>
    ELSE <<"unknown">>

\* conflict.get('type', 'unknown')
IssueType(conflict) == IF "type" \in DOMAIN conflict THEN conflict.type ELSE "unknown"

\* conflict.get('message', '')
IssueMessage(conflict) == IF "message" \in DOMAIN conflict THEN conflict.message ELSE ""

\* conflict.get('details', {}), as the sequence of its items
IssueDetails(conflict) ==
    IF "details" \in DOMAIN conflict THEN conflict.details ELSE <<>>

RECURSIVE DepLines(_, _)
DepLines(deps, packages) ==
    IF Len(deps) = 0 THEN ""
    ELSE (IF Head(deps).package \in SeqRange(packages)
          THEN "- " \o Head(deps).package \o ": "
               \o (IF Head(deps).specifier # "" THEN Head(deps).specifier
                   ELSE "no version specified")
               \o "\n"
          ELSE "")
         \o DepLines(Tail(deps), packages)

\* json.dumps(details) of a dict of strings
JsonDumps(details) ==
    "{"
    \o Join(", ", [i \in 1..Len(details) |->
                      "\"" \o details[i][1] \o "\": \"" \o details[i][2] \o "\""])
    \o "}"

create_prompt(conflict, deps) ==
    "You are a Python dependency expert. Explain this dependency conflict clearly:\n\n"
    \o "Conflict: " \o IssueMessage(conflict) \o "\n"
    \o "Type: " \o IssueType(conflict) \o "\n"
    \o "Packages involved: " \o Join(", ", IssuePackages(conflict)) \o "\n\n"
    \o "Dependency details:\n"
    \o DepLines(deps, IssuePackages(conflict))
    \o (IF Len(IssueDetails(conflict)) > 0
        THEN "\nVersion constraints: " \o JsonDumps(IssueDetails(conflict)) \o "\n"
        ELSE "")
    \o "\nProvide a clear, concise explanation that:\n"
    \o "1. Explains what the conflict is in simple terms\n"
    \o "2. Explains why this conflict happens (technical reason)\n"
    \o "3. Suggests how to fix it (specific version recommendations)\n\n"
    \o "Keep it under 150 words and use plain language.\n"

LightningText ==
    "PyTorch Lightning 2.0+ requires PyTorch 2.0 or higher because it uses new PyTorch APIs and features that don't exist in version 1.x. The conflict happens because you're trying to use a newer version of PyTorch Lightning with an older version of PyTorch. To fix this, either upgrade PyTorch to 2.0+ or downgrade PyTorch Lightning to 1.x."

FastapiText ==
    "FastAPI 0.78.x was built for Pydantic v1, which has a different API than Pydantic v2. The conflict occurs because Pydantic v2 introduced breaking changes that FastAPI 0.78 doesn't support. To fix this, either upgrade FastAPI to 0.99+ (which supports Pydantic v2) or downgrade Pydantic to v1.x."

TensorflowText ==
    "Keras 3.0+ requires TensorFlow 2.x because it was redesigned to work with TensorFlow 2's eager execution and new features. TensorFlow 1.x uses a different execution model that Keras 3.0 doesn't support. To fix this, upgrade TensorFlow to 2.x or downgrade Keras to 2.x."

DuplicateText ==
    "You have the same package specified multiple times with different versions. This creates ambiguity about which version should be installed. To fix this, remove duplicate entries and keep only one version specification per package."

GenericText ==
    "This dependency conflict occurs due to incompatible version requirements between packages. Review the version constraints and ensure all packages are compatible with each other. Consider updating to compatible versions or using a dependency resolver."

\* faulty variant of fallback_explanation: "duplicate" is looked for first
fallback_duplicate_first(p) ==
    LET lowered == Lower(p)
    IN  IF Contains(lowered, "duplicate") THEN DuplicateText
        ELSE IF Contains(lowered, "pytorch-lightning") /\ Contains(lowered, "torch") THEN LightningText
        ELSE IF Contains(lowered, "fastapi") /\ Contains(lowered, "pydantic") THEN FastapiText
        ELSE IF Contains(lowered, "tensorflow") /\ Contains(lowered, "keras") THEN TensorflowText
        ELSE GenericText

fallback_explanation(p) ==
    LET lowered == Lower(p)
    IN  IF Contains(lowered, "pytorch-lightning") /\ Contains(lowered, "torch") THEN LightningText
        ELSE IF Contains(lowered, "fastapi") /\ Contains(lowered, "pydantic") THEN FastapiText
        ELSE IF Contains(lowered, "tensorflow") /\ Contains(lowered, "keras") THEN TensorflowText
        ELSE IF Contains(lowered, "duplicate") THEN DuplicateText
        ELSE GenericText

\* any(word in s.lower() for word in words)
AnyWordIn(s, words) ==
    LET lowered == Lower(s)
    IN  \E w \in words : Contains(lowered, w)

\* [s.strip() for s in sentences if any(...)]
RECURSIVE Matching(_, _)
Matching(sentences, words) ==
    IF Len(sentences) = 0 THEN <<>>
    ELSE (IF AnyWordIn(Head(sentences), words) THEN <<Strip(Head(sentences))>> ELSE <<>>)
         \o Matching(Tail(sentences), words)

\* faulty variant of FirstTwo: xs[:3]
FirstThree(xs) == SubSeq(xs, 1, IF Len(xs) < 3 THEN Len(xs) ELSE 3)

\* xs[:2]
FirstTwo(xs) == SubSeq(xs, 1, IF Len(xs) < 2 THEN Len(xs) ELSE 2)

WhyWords == {"because", "due to", "requires", "needs", "since"}

FixWords == {"upgrade", "downgrade", "fix", "change", "update", "remove"}

extract_why(text) ==
    LET why_sentences == Matching(Split(text, "."), WhyWords)
    IN  IF Len(why_sentences) > 0
        THEN Join(". ", FirstTwo(why_sentences)) \o "."
        ELSE "Version constraints are incompatible."

extract_fix(text) ==
    LET fix_sentences == Matching(Split(text, "."), FixWords)
    IN  IF Len(fix_sentences) > 0
        THEN Join(". ", FirstTwo(fix_sentences)) \o "."
        ELSE "Adjust version constraints to compatible versions."

(***************************************************************************)
(* What requests.post can come back with.  A JSON value is a tagged        *)
(* record: [t |-> "str", s |-> ...], [t |-> "num", n |-> ...],             *)
(* [t |-> "list", items |-> ...], [t |-> "dict", fields |-> ...].          *)
(***************************************************************************)
JStr(s) == [t |-> "str", s |-> s]

JNum(n) == [t |-> "num", n |-> n]

JList(items) == [t |-> "list", items |-> items]

JDict(fields) == [t |-> "dict", fields |-> fields]

Generated(s) == JList(<<JDict([generated_text |-> JStr(s)])>>)

ServiceText ==
    "  The two pins disagree since torch 1.x lacks the APIs that Lightning 2 needs. Change the torch pin to 2.1.0.  "

\* label: the kind of outcome; raises: the exception requests.post raises, if any;
\* status: response.status_code; json: whether response.json() decodes; body: the value
Outcomes ==
    { [label |-> "timeout",          raises |-> "Timeout"],
      [label |-> "connection_error", raises |-> "ConnectionError"],
      [label |-> "non_200",          raises |-> "", status |-> 503, json |-> TRUE,
       body |-> Generated("The service is loading.")],
      [label |-> "other_exception",  raises |-> "", status |-> 200, json |-> FALSE],
      [label |-> "not_a_list",       raises |-> "", status |-> 200, json |-> TRUE,
       body |-> JDict([error |-> JStr("Model gpt2 is currently loading")])],
      [label |-> "empty_list",       raises |-> "", status |-> 200, json |-> TRUE,
       body |-> JList(<<>>)],
      [label |-> "no_text_field",    raises |-> "", status |-> 200, json |-> TRUE,
       body |-> JList(<<JDict([score |-> JNum(1)])>>)],
      [label |-> "element_not_dict", raises |-> "", status |-> 200, json |-> TRUE,
       body |-> JList(<<JStr("text")>>)],
      [label |-> "text_not_str",     raises |-> "", status |-> 200, json |-> TRUE,
       body |-> JList(<<JDict([generated_text |-> JNum(5)])>>)],
      [label |-> "empty_text",       raises |-> "", status |-> 200, json |-> TRUE,
       body |-> Generated("")],
      [label |-> "blank_text",       raises |-> "", status |-> 200, json |-> TRUE,
       body |-> Generated("   ")],
      [label |-> "text",             raises |-> "", status |-> 200, json |-> TRUE,
       body |-> Generated(ServiceText)] }

\* the truth value Python gives a JSON value
Truthy(v) ==
    CASE v.t = "str"  -> v.s # ""
      [] v.t = "num"  -> v.n # 0
      [] v.t = "list" -> Len(v.items) > 0
      [] v.t = "dict" -> DOMAIN v.fields # {}

\* the try block of _call_llm after the request was sent: the exception it ends with
\* ("" when none) and otherwise the text it returns or that it falls through to line 131
TryBlock(resp) ==
    IF resp.raises # "" THEN [exc |-> resp.raises]
    ELSE IF resp.status # 200 THEN [exc |-> "", fell |-> TRUE]
    ELSE IF ~resp.json THEN [exc |-> "JSONDecodeError"]
    ELSE IF ~(resp.body.t = "list" /\ Len(resp.body.items) > 0) THEN [exc |-> "", fell |-> TRUE]
    ELSE IF resp.body.items[1].t # "dict" THEN [exc |-> "AttributeError"]
    ELSE LET first == resp.body.items[1].fields
             generated_text == IF "generated_text" \in DOMAIN first
                               THEN first.generated_text ELSE JStr("")
         IN  IF ~Truthy(generated_text) THEN [exc |-> "", fell |-> TRUE]
             ELSE IF generated_text.t # "str" THEN [exc |-> "AttributeError"]
             ELSE [exc |-> "", fell |-> FALSE, text |-> Strip(generated_text.s)]

\* faulty variant of Caught: except requests.RequestException
CaughtRequestErrors(exc) == exc \in {"Timeout", "ConnectionError"}

\* except Exception: every exception the try block can end with is caught
Caught(exc) == TRUE

\* _call_llm once the request has come back: raised (an exception leaves the function),
\* fallback (whether _fallback_explanation ran), text (the returned string)
call_llm(p, resp) ==
    LET t == TryBlock(resp)
    IN  IF t.exc # ""
        THEN IF Caught(t.exc)
             THEN [raised |-> FALSE, fallback |-> TRUE, text |-> fallback_explanation(p)]
             ELSE [raised |-> TRUE, fallback |-> FALSE, text |-> ""]
        ELSE IF t.fell
             THEN [raised |-> FALSE, fallback |-> TRUE, text |-> fallback_explanation(p)]
             ELSE [raised |-> FALSE, fallback |-> FALSE, text |-> t.text]

\* the dict generate_explanation returns
ExplanationDict(conflict, text) ==
    [summary           |-> IssueMessage(conflict),
     explanation       |-> text,
     why_it_happens    |-> extract_why(text),
     how_to_fix        |-> extract_fix(text),
     packages_involved |-> IssuePackages(conflict),
     severity          |-> IF "severity" \in DOMAIN conflict THEN conflict.severity ELSE "medium"]

(***************************************************************************)
(* The submitted texts.  Texts: every text of up to MaxLines lines, each   *)
(* one of LinePool.  SampleTexts: the texts whose issues are explained.    *)
(***************************************************************************)
LinePool ==
    { "",
      "# pinned versions",
      "torch==1.8.0",
      "Torch == 1.8.0  # pin",
      "torch[cpu]==2.1.0",
      "py torch>==1.8",
      "torch ==",
      "pytorch-lightning==2.1.0",
      "fastapi==0.78.0",
      "pydantic>=2.0",
      "tensorflow==1.15,<2.0",
      "keras==3.0.0" }

Texts == {Join("\n", q) : q \in UNION {[1..n -> LinePool] : n \in 0..MaxLines}}

SampleTexts ==
    { "numpy\n# nothing else",
      "torch==1.8.0\npytorch-lightning==2.1.0",
      "fastapi==0.78.0\npydantic>=2.0",
      "tensorflow==1.15.0\nkeras==3.0.0",
      "torch==1.8.0\ntorch[cpu]==2.1.0",
      "torch[cpu]==2.1.0\ntorch==1.8.0\npytorch-lightning==2.1.0",
      "pytorch-lightning==2.1.0\npytorch-lightning ==",
      "numpy>==1.0",
      "fastapi==0.78.0\npydantic>=2.0\ntensorflow==1.15.0\nkeras==3.0.0\nPydantic==1.10.0" }

(***************************************************************************)
(* One run of app.main.                                                    *)
(***************************************************************************)
Init ==
    /\ pc = "start"
    /\ use_llm = TRUE
    /\ input_text = ""
    /\ dependencies = <<>>
    /\ graph = EmptyGraph
    /\ is_compatible = TRUE
    /\ issues = <<>>
    /\ idx = 0
    /\ prompt = ""
    /\ posts = 0
    /\ fallbacks = 0
    /\ raised = FALSE
    /\ response = None
    /\ explanation = None

\* the "Use AI Explanations" checkbox of the sidebar
Toggle ==
    /\ pc = "start"
    /\ use_llm' = ~use_llm
    /\ UNCHANGED <<pc, input_text, dependencies, graph, is_compatible, issues, idx, prompt,
                   posts, fallbacks, raised, response, explanation>>

\* the "Analyze Dependencies" button on the text: parse, build the graph, check it
AnalyzeText(text) ==
    /\ pc = "start"
    /\ input_text' = text
    /\ dependencies' = parse_requirements_text(text)
    /\ graph' = build_dependency_graph(dependencies')
    /\ \E result \in {check_compatibility(graph')} :
          is_compatible' = result[1] /\ issues' = result[2]
    /\ idx' = 1
    /\ pc' = IF Len(issues') > 0 THEN "explain" ELSE "done"
    /\ UNCHANGED <<use_llm, prompt, posts, fallbacks, raised, response, explanation>>

Analyze == pc = "start" /\ \E text \in Texts : AnalyzeText(text)

AnalyzeSample == pc = "start" /\ \E text \in SampleTexts : AnalyzeText(text)

\* a conflict dict and a dependency list handed to generate_explanation by a caller:
\* issues as check_compatibility builds them, and dicts of other shapes, which the
\* .get defaults of generate_explanation and _create_prompt accept
DirectConflicts ==
    { [type |-> "version_incompatibility", packages |-> <<"pytorch-lightning", "torch">>,
       message |-> "pytorch-lightning>=2.0 requires torch>=2.0, but torch<2.0 is specified",
       severity |-> "high",
       details |-> << <<"pytorch-lightning", "==2.1.0">>, <<"torch", "==1.8.0">> >>],
      [type |-> "version_incompatibility", packages |-> <<"tensorflow", "keras">>,
       message |-> "keras>=3.0 requires TensorFlow 2.x, but TensorFlow 1.x is specified",
       severity |-> "high",
       details |-> << <<"tensorflow", "==1.15.0">>, <<"keras", "==3.0.0">> >>],
      [type |-> "duplicate", package |-> "pytorch-lightning", severity |-> "high",
       message |-> "Conflict in pytorch-lightning: Duplicate: pytorch-lightning==2.1.0 vs pytorch-lightning==1.9.0"],
      [type |-> "duplicate", package |-> "numpy", severity |-> "high",
       message |-> "Conflict in numpy: Duplicate: numpy==1.0 vs numpy==2.0"],
      [type |-> "duplicate", package |-> "fastapi", severity |-> "high",
       message |-> "Conflict in fastapi: Duplicate: fastapi==0.78.0 vs fastapi==0.99.0"],
      [type |-> "DUPLICATE", package |-> "Keras"],
      [message |-> "FastAPI 0.78 and Pydantic 2 disagree"],
      [type |-> "missing", package |-> "torch", message |-> "torch is not installed"],
      [type |-> "circular", packages |-> <<"numpy", "scipy">>,
       message |-> "numpy and scipy need each other", severity |-> "low"],
      <<>> }

DirectDependencies ==
    { <<>>,
      parse_requirements_text("torch==1.8.0\npytorch-lightning==2.1.0\nnumpy") }

\* generate_explanation is about to be called on a conflict and a dependency list
EngineInit ==
    /\ pc = "explain"
    /\ use_llm = TRUE
    /\ input_text = ""
    /\ dependencies \in DirectDependencies
    /\ graph = EmptyGraph
    /\ is_compatible = FALSE
    /\ \E conflict \in DirectConflicts : issues = <<conflict>>
    /\ idx = 1
    /\ prompt = ""
    /\ posts = 0
    /\ fallbacks = 0
    /\ raised = FALSE
    /\ response = None
    /\ explanation = None

\* faulty variant of Requests: the request is sent a second time
RequestsTwice(n) == n + 2

\* requests.post calls made once _call_llm has sent its request
Requests(n) == n + 1

\* engine.generate_explanation(issue, dependencies) up to the moment the request is out
SendRequest ==
    /\ pc = "explain"
    /\ prompt' = create_prompt(issues[idx], dependencies)
    /\ posts' = Requests(0)
    /\ fallbacks' = 0
    /\ raised' = FALSE
    /\ response' = None
    /\ pc' = "waiting"
    /\ UNCHANGED <<use_llm, input_text, dependencies, graph, is_compatible, issues, idx,
                   explanation>>

\* the request comes back: the rest of _call_llm and of generate_explanation, then the
\* loop of app.py moves to the next issue
Receive(resp) ==
    /\ pc = "waiting"
    /\ response' = Some(resp)
    /\ \E r \in {call_llm(prompt, resp)} :
          /\ raised' = r.raised
          /\ fallbacks' = IF r.fallback THEN fallbacks + 1 ELSE fallbacks
          /\ IF r.raised
             THEN /\ pc' = "crashed"
                  /\ UNCHANGED <<idx, explanation>>
             ELSE /\ explanation' = Some(ExplanationDict(issues[idx], r.text))
                  /\ idx' = idx + 1
                  /\ pc' = IF idx < Len(issues) THEN "explain" ELSE "done"
    /\ UNCHANGED <<use_llm, input_text, dependencies, graph, is_compatible, issues, prompt,
                   posts>>

Next ==
    \/ Toggle
    \/ AnalyzeSample
    \/ SendRequest
    \/ \E resp \in Outcomes : Receive(resp)

\* the whole run, on the sample texts
Spec == Init /\ [][Next]_vars

EngineNext ==
    \/ SendRequest
    \/ \E resp \in Outcomes : Receive(resp)

\* generate_explanation called directly, on the conflicts of DirectConflicts
SpecEngine == EngineInit /\ [][EngineNext]_vars

\* parsing, graph building and rule checking, on every text of Texts
SpecAnalysis == Init /\ [][Analyze]_vars

(***************************************************************************)
(* Properties of the explanation engine, under Spec.                       *)
(***************************************************************************)

\* C1: with the external-service option off (use_local_llm = False), no call
\* of generate_explanation ever sends the POST.
C1_NoRequestWhenDisabled == ~use_llm => posts = 0

\* the outcomes of the external call that the claim C2 lists as failures
FailureLabels ==
    {"non_200", "not_a_list", "empty_list", "no_text_field", "element_not_dict",
     "text_not_str", "empty_text", "timeout", "connection_error", "other_exception"}

FailureReceived == response # None /\ response[1].label \in FailureLabels

\* C2: whatever failure the external call ends with, generate_explanation
\* raises nothing and returns the Explanation of the issue at hand, whose text
\* is the fallback paragraph for its prompt.
C2_FailureAbsorbed ==
    FailureReceived =>
        /\ ~raised
        /\ pc \in {"explain", "done"}
        /\ explanation # None
        /\ explanation[1].explanation = fallback_explanation(prompt)
        /\ explanation[1].summary = issues[idx - 1].message

C2_Witness ==
    /\ FailureReceived
    /\ response[1].label = "other_exception"
    /\ explanation # None
    /\ explanation[1].explanation = DuplicateText

\* C3: one call of generate_explanation sends at most one POST; the fallback
\* is computed at most once, never while the request is still out, and a
\* failed response is followed by the fallback without a further request.
C3_SingleAttempt ==
    /\ posts <= 1
    /\ fallbacks <= 1
    /\ pc = "waiting" => fallbacks = 0 /\ posts = 1
    /\ fallbacks = 1 => posts = 1 /\ response # None
    /\ FailureReceived => posts = 1 /\ fallbacks = 1 /\ pc # "waiting"

C3_Witness ==
    /\ FailureReceived
    /\ response[1].label = "non_200"
    /\ posts = 1
    /\ fallbacks = 1

(***************************************************************************)
(* Properties of the parser, under SpecAnalysis.  They are stated on the   *)
(* lines of input_text, not on the loop: ContentLines are the lines that   *)
(* are neither blank nor comment lines, with their inline comment removed. *)
(***************************************************************************)
IsContentLine(line) == line # "" /\ Char(line, 1) # "#"

ContentLines(text) ==
    LET lines   == TextLines(text)
        content == SelectSeq([j \in 1..Len(lines) |-> Strip(lines[j])], IsContentLine)
    IN  [j \in 1..Len(content) |-> CleanLine(content[j])]

\* the parse of each content line the texts of Texts are made of, the name lower-cased
ParseOf ==
    [line \in {CleanLine(raw) : raw \in LinePool} |->
        LET req == Requirement(line)
        IN  IF req.ok THEN [ok |-> TRUE, name |-> Lower(req.name), specifier |-> req.specifier]
            ELSE [ok |-> FALSE]]

\* the parse of every content line
Parses(ls) == [j \in 1..Len(ls) |-> ParseOf[ls[j]]]

SameName(rs, i, j) == rs[i].ok /\ rs[j].ok /\ rs[i].name = rs[j].name

\* the first line that parses to the name of line j
FirstFor(rs, j) ==
    CHOOSE i \in 1..j : SameName(rs, i, j) /\ \A k \in 1..(i - 1) : ~SameName(rs, k, j)

\* line j repeats the name and the specifier of the first line for its name
IsExactDuplicate(rs, j) ==
    rs[j].ok /\ FirstFor(rs, j) < j /\ rs[j].specifier = rs[FirstFor(rs, j)].specifier

\* the content lines that are not exact duplicates, in input order
KeptLines(rs) ==
    SelectSeq([j \in 1..Len(rs) |-> j], LAMBDA j : ~IsExactDuplicate(rs, j))

IsParseError(dep) == dep.conflict # None /\ StartsWith(dep.conflict[1], "Parse error:")

\* C4: per package name, the records of parsed lines are the first line for
\* the name (no conflict) followed, in order, by every later line whose
\* specifier differs from that first line's, each with the conflict
\* "Duplicate: <first line> vs <this line>"; a later line with the first
\* line's specifier gets no record, so the first line stays the reference.
C4_DuplicatesAgainstFirst ==
    \A ls \in {ContentLines(input_text)} : \A rs \in {Parses(ls)} :
        \A n \in {rs[j].name : j \in {i \in 1..Len(rs) : rs[i].ok}} :
            \A mine \in {SelectSeq(KeptLines(rs), LAMBDA j : rs[j].ok /\ rs[j].name = n)},
               recs \in {SelectSeq(dependencies,
                                   LAMBDA d : d.package = n /\ ~IsParseError(d))} :
                /\ Len(recs) = Len(mine)
                /\ \A k \in 1..Len(mine) :
                      /\ recs[k].original = ls[mine[k]]
                      /\ recs[k].specifier = rs[mine[k]].specifier
                      /\ recs[k].conflict =
                            IF k = 1 THEN None
                            ELSE Some("Duplicate: " \o ls[mine[1]] \o " vs " \o ls[mine[k]])

C4_Witness ==
    /\ Len(dependencies) = 3
    /\ \A k \in 1..3 : dependencies[k].package = "torch"
    /\ dependencies[2].specifier = dependencies[3].specifier
    /\ dependencies[2].conflict # None
    /\ dependencies[3].conflict =
          Some("Duplicate: " \o dependencies[1].original \o " vs " \o dependencies[3].original)

\* C5: the records are the content lines minus the exact duplicates, one
\* record per kept line and in the order of the lines; there are never more
\* records than input lines.
C5_CountAndOrder ==
    \A ls \in {ContentLines(input_text)} : \A rs \in {Parses(ls)} :
      \A kept \in {KeptLines(rs)} :
        /\ Len(dependencies)
             = Len(ls) - Cardinality({j \in 1..Len(rs) : IsExactDuplicate(rs, j)})
        /\ Len(dependencies) = Len(kept)
        /\ \A k \in 1..Len(kept) : dependencies[k].original = ls[kept[k]]
        /\ Len(dependencies) <= Len(Split(input_text, "\n"))

C5_Witness ==
    /\ Len(Split(input_text, "\n")) = 3
    /\ Len(ContentLines(input_text)) = 2
    /\ Len(dependencies) = 1

\* the line cut at the earliest occurrence of "==", ">=", "<=" or "["
CutAtEarliest(line) ==
    LET hits == {Find(line, op) : op \in {"==", ">=", "<=", "["}} \ {0}
    IN  IF hits = {} THEN line
        ELSE SubSeq(line, 1, (CHOOSE h \in hits : \A g \in hits : h <= g) - 1)

\* C6: a line that fails to parse yields one record with empty specifier,
\* extras and marker, a conflict starting "Parse error:" and, as package, the
\* line cut at the earliest of "==", ">=", "<=", "[" and trimmed; it is not
\* registered, so a later parsed line of that name is a first occurrence.
C6_ParseErrorRecord ==
    \A ls \in {ContentLines(input_text)} : \A rs \in {Parses(ls)} :
      \A kept \in {KeptLines(rs)} :
        /\ Len(dependencies) = Len(kept)
        /\ \A k \in 1..Len(kept) :
              IF rs[kept[k]].ok
              THEN FirstFor(rs, kept[k]) = kept[k] => dependencies[k].conflict = None
              ELSE /\ dependencies[k].specifier = ""
                   /\ dependencies[k].extras = {}
                   /\ dependencies[k].marker = ""
                   /\ IsParseError(dependencies[k])
                   /\ dependencies[k].package = Strip(CutAtEarliest(ls[kept[k]]))

(***************************************************************************)
(* Properties of the graph builder and of the rule engine, under           *)
(* SpecAnalysis.                                                           *)
(***************************************************************************)

\* C7: the keys of nodes are the distinct packages of the records, every
\* conflicts entry names a key of nodes, conflicts lists the records whose
\* conflict is set, in record order, and edges is empty.
C7_GraphConsistent ==
    LET flagged == SelectSeq(dependencies, LAMBDA d : d.conflict # None)
    IN  /\ DOMAIN graph.nodes = {dependencies[i].package : i \in 1..Len(dependencies)}
        /\ \A i \in 1..Len(graph.conflicts) : graph.conflicts[i].package \in DOMAIN graph.nodes
        /\ Len(graph.conflicts) = Len(flagged)
        /\ \A i \in 1..Len(flagged) :
              /\ graph.conflicts[i].package = flagged[i].package
              /\ graph.conflicts[i].reason = flagged[i].conflict[1]
        /\ graph.edges = <<>>

C7_Witness ==
    /\ Len(graph.conflicts) = 2
    /\ graph.conflicts[1].package # graph.conflicts[2].package
    /\ Cardinality(DOMAIN graph.nodes) = 3

IsPairIssue(issue, a, b) ==
    issue.type = "version_incompatibility" /\ issue.packages = <<a, b>>

HasPairIssue(a, b) == \E i \in 1..Len(issues) : IsPairIssue(issues[i], a, b)

NodeSpec(name) == graph.nodes[name].specifier

\* the rule table as the claim C8 states it
RuleHolds(a, b) ==
    /\ a \in DOMAIN graph.nodes /\ b \in DOMAIN graph.nodes
    /\ CASE a = "pytorch-lightning" ->
                /\ Contains(NodeSpec(a), "==2.") \/ Contains(NodeSpec(a), ">=2.")
                /\ Contains(NodeSpec(b), "==1.")
         [] a = "fastapi" ->
                /\ Contains(NodeSpec(a), "==0.78") \/ Contains(NodeSpec(a), "==0.7")
                /\ Contains(NodeSpec(b), "==2.") \/ Contains(NodeSpec(b), ">=2.")
         [] a = "tensorflow" ->
                /\ Contains(NodeSpec(a), "==1.")
                /\ Contains(NodeSpec(b), "==3.") \/ Contains(NodeSpec(b), ">=3.")

RulePairs ==
    << <<"pytorch-lightning", "torch">>, <<"fastapi", "pydantic">>, <<"tensorflow", "keras">> >>

\* C8: a version_incompatibility issue for a pair is emitted exactly when
\* both packages are nodes and the pair's substring predicate holds on the
\* node specifiers; it has severity high and the two raw specifiers as
\* details; pytorch-lightning ==2.1.0 with torch ==2.1.0 emits none.
C8_RuleFiresIff ==
    /\ \A r \in 1..Len(RulePairs) :
          HasPairIssue(RulePairs[r][1], RulePairs[r][2])
              <=> RuleHolds(RulePairs[r][1], RulePairs[r][2])
    /\ \A i \in 1..Len(issues) :
          issues[i].type = "version_incompatibility" =>
              /\ \E r \in 1..Len(RulePairs) : issues[i].packages = RulePairs[r]
              /\ issues[i].severity = "high"
              /\ issues[i].details =
                    << <<issues[i].packages[1], NodeSpec(issues[i].packages[1])>>,
                       <<issues[i].packages[2], NodeSpec(issues[i].packages[2])>> >>
    /\ ( /\ "pytorch-lightning" \in DOMAIN graph.nodes /\ "torch" \in DOMAIN graph.nodes
         /\ NodeSpec("pytorch-lightning") = "==2.1.0" /\ NodeSpec("torch") = "==2.1.0" )
       => ~HasPairIssue("pytorch-lightning", "torch")

C8_Witness ==
    /\ HasPairIssue("pytorch-lightning", "torch")
    /\ NodeSpec("pytorch-lightning") = "==2.1.0"
    /\ NodeSpec("torch") = "==1.8.0"

RecordsOf(name) == SelectSeq(dependencies, LAMBDA d : d.package = name)

\* C10 as stated: the node of a name that appears in more than one record
\* holds the specifier, extras, marker and conflict of the first record.
C10_NodeIsFirstRecord ==
    \A name \in DOMAIN graph.nodes :
        Len(RecordsOf(name)) > 1 => graph.nodes[name] = NodeOf(RecordsOf(name)[1])

\* C10 amended: the node of a name that appears in more than one record
\* holds the specifier, extras, marker and conflict of the last record.
C10_NodeIsLastRecord ==
    \A name \in DOMAIN graph.nodes :
        Len(RecordsOf(name)) > 1 =>
            graph.nodes[name] = NodeOf(RecordsOf(name)[Len(RecordsOf(name))])

C10_Witness ==
    /\ "torch" \in DOMAIN graph.nodes
    /\ Len(RecordsOf("torch")) = 2
    /\ RecordsOf("torch")[1].specifier = "==1.8.0"
    /\ RecordsOf("torch")[2].specifier = "==2.1.0"
    /\ graph.nodes["torch"].specifier = "==2.1.0"
    /\ graph.nodes["torch"].extras = {"cpu"}

\* the last record of a package name
LastRecord(name) == RecordsOf(name)[Len(RecordsOf(name))]

\* the substring predicate of the rule for the pair starting with a, on two specifiers
SpecPredicate(a, sa, sb) ==
    CASE a = "pytorch-lightning" ->
            (Contains(sa, "==2.") \/ Contains(sa, ">=2.")) /\ Contains(sb, "==1.")
      [] a = "fastapi" ->
            /\ Contains(sa, "==0.78") \/ Contains(sa, "==0.7")
            /\ Contains(sb, "==2.") \/ Contains(sb, ">=2.")
      [] a = "tensorflow" ->
            Contains(sa, "==1.") /\ (Contains(sb, "==3.") \/ Contains(sb, ">=3."))

\* C11: every node holds the fields of the last record of its name, so each
\* pairwise rule fires exactly when the specifiers of the last records of its
\* two packages satisfy its predicate; a parse-error record that comes last
\* leaves the node with an empty specifier; graph.conflicts still lists every
\* flagged record, in record order.
C11_RulesSeeLastRecord ==
    /\ \A name \in DOMAIN graph.nodes : graph.nodes[name] = NodeOf(LastRecord(name))
    /\ \A r \in 1..Len(RulePairs) :
          HasPairIssue(RulePairs[r][1], RulePairs[r][2]) <=>
              /\ Len(RecordsOf(RulePairs[r][1])) > 0
              /\ Len(RecordsOf(RulePairs[r][2])) > 0
              /\ SpecPredicate(RulePairs[r][1],
                               LastRecord(RulePairs[r][1]).specifier,
                               LastRecord(RulePairs[r][2]).specifier)
    /\ \A name \in DOMAIN graph.nodes :
          IsParseError(LastRecord(name)) => graph.nodes[name].specifier = ""
    /\ [i \in 1..Len(graph.conflicts) |-> graph.conflicts[i].reason]
          = [i \in 1..Len(SelectSeq(dependencies, LAMBDA d : d.conflict # None)) |->
                SelectSeq(dependencies, LAMBDA d : d.conflict # None)[i].conflict[1]]

C11_Witness ==
    /\ Len(RecordsOf("torch")) = 2
    /\ RecordsOf("torch")[1].specifier = "==2.1.0"
    /\ RecordsOf("torch")[2].specifier = "==1.8.0"
    /\ HasPairIssue("pytorch-lightning", "torch")
    /\ Len(graph.conflicts) = 1

(***************************************************************************)
(* Properties of the fallback and of the sub-field extraction, under       *)
(* SpecEngine.                                                             *)
(***************************************************************************)

\* the signatures in the order they are tried, the last one matching every prompt
Signatures ==
    << {"pytorch-lightning", "torch"}, {"fastapi", "pydantic"}, {"tensorflow", "keras"},
       {"duplicate"}, {} >>

Paragraphs == <<LightningText, FastapiText, TensorflowText, DuplicateText, GenericText>>

\* the index of the first signature whose keywords all occur in the lower-cased prompt
FirstSignature(lowered) ==
    CHOOSE i \in 1..Len(Signatures) :
        /\ \A w \in Signatures[i] : Contains(lowered, w)
        /\ \A j \in 1..(i - 1) : \E w \in Signatures[j] : ~Contains(lowered, w)

FallbackTaken == response # None /\ fallbacks = 1 /\ explanation # None

\* C12: whenever the fallback is taken, the explanation is the paragraph of
\* the first signature, in the order lightning+torch, fastapi+pydantic,
\* tensorflow+keras, duplicate, generic, whose keywords all occur in the
\* prompt regardless of case; it is exactly one of the five paragraphs, and a
\* duplicate-type issue whose prompt names pytorch-lightning gets the
\* lightning/torch paragraph.
C12_FirstSignatureWins ==
    FallbackTaken =>
        \A lowered \in {Lower(prompt)} :
            /\ explanation[1].explanation = Paragraphs[FirstSignature(lowered)]
            /\ Cardinality({i \in 1..Len(Paragraphs) :
                               explanation[1].explanation = Paragraphs[i]}) = 1
            /\ (IssueType(issues[1]) = "duplicate" /\ Contains(lowered, "pytorch-lightning"))
                  => explanation[1].explanation = LightningText

C12_Witness ==
    /\ FallbackTaken
    /\ IssueType(issues[1]) = "duplicate"
    /\ Contains(prompt, "Duplicate: pytorch-lightning==2.1.0")
    /\ explanation[1].explanation = LightningText

\* whether the sentence contains one of the trigger words, regardless of case
HasTrigger(sentence, words) == \E w \in words : Contains(Lower(sentence), w)

WhyDefault == "Version constraints are incompatible."

FixDefault == "Adjust version constraints to compatible versions."

\* the sub-field as C13 states it: the first two sentences with a trigger word,
\* trimmed, joined by ". " and closed by "."; the default when there is none
ExpectedField(text, words, default) ==
    \* the sentences are computed once
    CHOOSE field \in
        { LET sentences == Split(text, ".")
              hits      == {i \in 1..Len(sentences) : HasTrigger(sentences[i], words)}
              first     == CHOOSE i \in hits : \A j \in hits : i <= j
              later     == hits \ {first}
              second    == CHOOSE i \in later : \A j \in later : i <= j
          IN  IF hits = {} THEN default
              ELSE IF later = {} THEN Strip(sentences[first]) \o "."
              ELSE Strip(sentences[first]) \o ". " \o Strip(sentences[second]) \o "." } : TRUE

\* the sentences a sub-field is made of
FieldSentences(field) == SelectSeq(Split(field, "."), LAMBDA f : Strip(f) # "")

\* C13: for the text of every explanation, from the service or the fallback,
\* why_it_happens is the first two '.'-separated sentences with one of
\* because / due to / requires / needs / since, joined by ". " with a
\* trailing ".", or its default; how_to_fix likewise with upgrade / downgrade
\* / fix / change / update / remove; neither is empty, and unless it is the
\* default each has at most two sentences, all with a trigger word.
C13_SubFields ==
    explanation # None =>
        \A e \in {explanation[1]} :
            /\ e.why_it_happens = ExpectedField(e.explanation, WhyWords, WhyDefault)
            /\ e.how_to_fix = ExpectedField(e.explanation, FixWords, FixDefault)
            /\ e.why_it_happens # "" /\ e.how_to_fix # ""
            /\ e.why_it_happens # WhyDefault =>
                  /\ Len(FieldSentences(e.why_it_happens)) \in {1, 2}
                  /\ \A i \in 1..Len(FieldSentences(e.why_it_happens)) :
                        HasTrigger(FieldSentences(e.why_it_happens)[i], WhyWords)
            /\ e.how_to_fix # FixDefault =>
                  /\ Len(FieldSentences(e.how_to_fix)) \in {1, 2}
                  /\ \A i \in 1..Len(FieldSentences(e.how_to_fix)) :
                        HasTrigger(FieldSentences(e.how_to_fix)[i], FixWords)

C13_Witness ==
    /\ explanation # None
    /\ explanation[1].explanation = LightningText
    /\ explanation[1].why_it_happens
          = "0+ requires PyTorch 2. 0 or higher because it uses new PyTorch APIs and features that don't exist in version 1."
    /\ explanation[1].how_to_fix
          = "To fix this, either upgrade PyTorch to 2. 0+ or downgrade PyTorch Lightning to 1."

====
